---------------------------- MODULE Spec2Model ----------------------------
(***************************************************************************)
(* A model of the concurrent directory scanner of src/lib/_scanner.py:     *)
(* _TaskManager (skim_dir, _crawl_dir, begin_scan) and Scanner             *)
(* (_deep_scan_dir, _summarize, search_scan), running on a                 *)
(* concurrent.futures.ThreadPoolExecutor.                                  *)
(*                                                                         *)
(* Strings of the program (file names, paths, dictionary keys) are         *)
(* sequences of one-character strings, so that startswith, endswith,       *)
(* lower, split and fnmatch are computed character by character.           *)
(* A Python dict is a sequence of key/value pairs in insertion order.      *)
(***************************************************************************)
EXTENDS Integers, Sequences, FiniteSets, TLC

(***************************************************************************)
(* Bounds of the model.                                                    *)
(***************************************************************************)
\* _MAX_WORKERS is 32 in src/lib/_scanner.py, line 9.  The model scales the
\* cap down so that a root fan-out above the cap is within reach of the model
\* checker; every formula below is written in terms of _MAX_WORKERS, not of
\* its value.
_MAX_WORKERS == 2

\* The number of directories whose listing the operating system fails.
MaxFailDirs == 1

(***************************************************************************)
(* Names.                                                                  *)
(***************************************************************************)
K_PATH  == <<"_", "_", "p", "a", "t", "h", "_", "_">>
K_FILES == <<"_", "_", "f", "i", "l", "e", "s", "_", "_">>
K_ERROR == <<"_", "_", "e", "r", "r", "o", "r", "_", "_">>

ROOT == <<"/", "r">>

dA   == <<"a">>
dB   == <<"b">>
dC   == <<"c">>
dD   == <<"d">>
dHid == <<".", "h">>
fX   == <<"x">>
fY   == <<"y">>
fPdf == <<"R", ".", "P", "D", "F">>
fTxt == <<"n", ".", "t", "x", "t">>
fHid == <<".", "g">>

\* str(e) of an OSError, and the message of _deep_scan_dir; no claim reads
\* the text of a message, only its presence.
MSG_OSERROR  == <<"O", "S", "E", "r", "r", "o", "r">>
MSG_NOTEXIST == <<"n", "o", "t", " ", "e", "x", "i", "s", "t">>

(***************************************************************************)
(* Strings.                                                                *)
(***************************************************************************)
Lower(c) ==
    CASE c = "A" -> "a" [] c = "B" -> "b" [] c = "C" -> "c" [] c = "D" -> "d"
      [] c = "E" -> "e" [] c = "F" -> "f" [] c = "G" -> "g" [] c = "O" -> "o"
      [] c = "P" -> "p" [] c = "R" -> "r" [] c = "S" -> "s" [] c = "T" -> "t"
      [] c = "X" -> "x" [] c = "Z" -> "z"
      [] OTHER -> c

StrLower(s) == [i \in 1..Len(s) |-> Lower(s[i])]

StartsWith(s, p) == Len(p) <= Len(s) /\ SubSeq(s, 1, Len(p)) = p

EndsWith(s, p) == Len(p) <= Len(s) /\ SubSeq(s, Len(s) - Len(p) + 1, Len(s)) = p

\* s.split(".")[1]: the text between the first and the second dot of s (to the
\* end of s when there is no second dot).  Only used on strings starting with ".".
RECURSIVE UpToDot(_)
UpToDot(s) ==
    IF s = <<>> \/ Head(s) = "." THEN <<>> ELSE <<Head(s)>> \o UpToDot(Tail(s))

SplitDot1(s) == UpToDot(Tail(s))

\* os.path.join(path, name) for a non-empty path not ending in "/".
Join(path, name) == path \o <<"/">> \o name

\* p2 is strictly below p1 in the directory tree.
Below(p1, p2) == StartsWith(p2, p1 \o <<"/">>)

(***************************************************************************)
(* fnmatch.fnmatchcase(name, pat) for patterns over literal characters,    *)
(* "*" and "?".                                                            *)
(***************************************************************************)
_WILDCARD_CHARS == {"*", "?", "["}

RECURSIVE FnMatch(_, _)
FnMatch(name, pat) ==
    IF pat = <<>> THEN name = <<>>
    ELSE IF Head(pat) = "*"
         THEN \E k \in 0..Len(name) : FnMatch(SubSeq(name, k + 1, Len(name)), Tail(pat))
    ELSE IF name = <<>> THEN FALSE
    ELSE IF Head(pat) = "?" THEN FnMatch(Tail(name), Tail(pat))
    ELSE Head(pat) = Head(name) /\ FnMatch(Tail(name), Tail(pat))

_normalise_unwrapped(item) == item

_normalise(item) ==
    IF \E i \in 1..Len(item) : item[i] \in _WILDCARD_CHARS
    THEN item
    ELSE <<"*">> \o item \o <<"*">>

_ignore_dir_by_name(path, name, ignore_dirs, scan_hidden) ==
    name \in ignore_dirs

_ignore_dir(path, name, ignore_dirs, scan_hidden) ==
    \/ name \in ignore_dirs
    \/ path \in ignore_dirs
    \/ (~scan_hidden /\ StartsWith(name, <<".">>))

\* search_file_names and search_file_extensions are sets; the empty set
\* stands for None as well (both are falsy in the two "if" tests).
ExtMatches(filename, ext) ==
    LET ext_lower0 == StrLower(ext)
        ext_lower  == IF StartsWith(ext_lower0, <<".">>)
                      THEN SplitDot1(ext_lower0) ELSE ext_lower0
    IN  EndsWith(StrLower(filename), <<".">> \o ext_lower)

_should_consider_file(filename, scan_hidden, search_file_names, search_file_extensions) ==
    IF ~scan_hidden /\ StartsWith(filename, <<".">>) THEN FALSE
    ELSE IF search_file_names # {}
            /\ ~\E to_search \in search_file_names :
                   FnMatch(StrLower(filename), StrLower(_normalise(to_search)))
         THEN FALSE
    ELSE IF search_file_extensions # {}
         THEN \E ext \in search_file_extensions : ExtMatches(filename, ext)
    ELSE TRUE

(***************************************************************************)
(* Python dicts: a sequence of <<key, value>> records in insertion order.  *)
(* A value is a string, a list of strings, or a reference to another dict  *)
(* (the dict created for the directory of that path).                      *)
(***************************************************************************)
VStr(s)  == [t |-> "str",  x |-> s]
VList(l) == [t |-> "list", x |-> l]
VDict(p) == [t |-> "dict", x |-> p]

HasKey(b, k) == \E i \in 1..Len(b) : b[i].k = k

Get(b, k) == b[CHOOSE i \in 1..Len(b) : b[i].k = k].v

\* b[k] = v: an existing key keeps its position.
Put(b, k, v) ==
    IF HasKey(b, k)
    THEN [i \in 1..Len(b) |-> IF b[i].k = k THEN [k |-> k, v |-> v] ELSE b[i]]
    ELSE Append(b, [k |-> k, v |-> v])

\* The values of b that are dicts, in iteration order
\* ("for _, value in bucket.items(): if isinstance(value, dict)").
RECURSIVE DictValues(_)
DictValues(b) ==
    IF b = <<>> THEN <<>>
    ELSE (IF Head(b).v.t = "dict" THEN <<Head(b).v.x>> ELSE <<>>) \o DictValues(Tail(b))

\* {"__path__": path, "__files__": []}
Stub(path) == <<[k |-> K_PATH, v |-> VStr(path)], [k |-> K_FILES, v |-> VList(<<>>)]>>

(***************************************************************************)
(* The file system: for every directory its os.scandir entries in listing  *)
(* order, and failAt: -1 when the listing succeeds, else the number of      *)
(* entries delivered before the listing raises OSError (0: scandir itself  *)
(* fails: permission denied, vanished, not a directory).                   *)
(***************************************************************************)
EFile(n) == [name |-> n, kind |-> "file"]
EDir(n)  == [name |-> n, kind |-> "dir"]
ELink(n) == [name |-> n, kind |-> "link"]

Dir(es) == [entries |-> es, failAt |-> -1]

\* A root with files only: fan-out 0.
FsFlat == ROOT :> Dir(<<EFile(fX), EFile(fHid)>>)

\* Two subtrees, one of them two levels deep.
FsDeep ==
    ROOT :> Dir(<<EFile(fX), EDir(dA), ELink(dC), EDir(dB)>>)
    @@ Join(ROOT, dA) :> Dir(<<EDir(dC), EFile(fY), EDir(dD)>>)
    @@ Join(Join(ROOT, dA), dC) :> Dir(<<EFile(fTxt), EDir(dD)>>)
    @@ Join(Join(Join(ROOT, dA), dC), dD) :> Dir(<<EFile(fX)>>)
    @@ Join(Join(ROOT, dA), dD) :> Dir(<<>>)
    @@ Join(ROOT, dB) :> Dir(<<EFile(fPdf), EDir(dHid)>>)
    @@ Join(Join(ROOT, dB), dHid) :> Dir(<<EFile(fY)>>)

\* More root-level directories than the pool has threads.
WideNames == <<dA, dB, dC, dD, dHid>>

FsWide ==
    [p \in {ROOT} \cup {Join(ROOT, WideNames[i]) : i \in 1..(_MAX_WORKERS + 1)} |->
        IF p = ROOT
        THEN Dir([i \in 1..(_MAX_WORKERS + 1) |-> EDir(WideNames[i])])
        ELSE IF p = Join(ROOT, dA) THEN Dir(<<EFile(fX)>>) ELSE Dir(<<>>)]

\* Directories named like the reserved key "__files__", listed before a file
\* of the same directory: the append to bucket["__files__"] then finds a dict.
FsFault ==
    ROOT :> Dir(<<EDir(dA), EDir(dB), EDir(dC)>>)
    @@ Join(ROOT, dA) :> Dir(<<EDir(K_FILES), EFile(fX)>>)
    @@ Join(Join(ROOT, dA), K_FILES) :> Dir(<<>>)
    @@ Join(ROOT, dB) :> Dir(<<EDir(dD)>>)
    @@ Join(Join(ROOT, dB), dD) :> Dir(<<EFile(fY)>>)
    @@ Join(ROOT, dC) :> Dir(<<EFile(fY), EDir(K_FILES), EFile(fX)>>)
    @@ Join(Join(ROOT, dC), K_FILES) :> Dir(<<>>)

\* The same collision in the root itself.
FsRootFault ==
    ROOT :> Dir(<<EDir(dA), EDir(K_FILES), EFile(fX)>>)
    @@ Join(ROOT, dA) :> Dir(<<>>)
    @@ Join(ROOT, K_FILES) :> Dir(<<>>)

\* Directories named like the other reserved keys.
FsReserved ==
    ROOT :> Dir(<<EDir(dA), EFile(fX)>>)
    @@ Join(ROOT, dA) :> Dir(<<EFile(fY), EDir(K_ERROR), EDir(K_PATH), EDir(dB)>>)
    @@ Join(Join(ROOT, dA), K_ERROR) :> Dir(<<EFile(fX)>>)
    @@ Join(Join(ROOT, dA), K_PATH) :> Dir(<<>>)
    @@ Join(Join(ROOT, dA), dB) :> Dir(<<EFile(fX)>>)

FsRootReserved ==
    ROOT :> Dir(<<EDir(dA), EDir(K_ERROR)>>)
    @@ Join(ROOT, dA) :> Dir(<<EFile(fX)>>)
    @@ Join(ROOT, K_ERROR) :> Dir(<<>>)

\* A directory named "__path__" next to a file and an ordinary directory.
FsPathKey ==
    ROOT :> Dir(<<EDir(dA)>>)
    @@ Join(ROOT, dA) :> Dir(<<EFile(fY), EDir(K_PATH), EDir(dB)>>)
    @@ Join(Join(ROOT, dA), K_PATH) :> Dir(<<>>)
    @@ Join(Join(ROOT, dA), dB) :> Dir(<<>>)

FileSystems ==
    {FsFlat, FsDeep, FsWide, FsFault, FsRootFault, FsReserved, FsRootReserved,
     FsPathKey}

\* f with the listing of every directory of S failing after k[d] entries.
WithFailures(f, S, k) ==
    [d \in DOMAIN f |-> IF d \in S THEN [f[d] EXCEPT !.failAt = k[d]] ELSE f[d]]

MaxEntries(f) ==
    CHOOSE n \in 0..8 : /\ \A d \in DOMAIN f : Len(f[d].entries) <= n
                        /\ \E d \in DOMAIN f : Len(f[d].entries) = n

FailingVariants(f) ==
    UNION { { WithFailures(f, S, k) :
                k \in {kk \in [S -> 0..MaxEntries(f)] :
                          \A d \in S : kk[d] <= Len(f[d].entries)} } :
            S \in {T \in SUBSET DOMAIN f : Cardinality(T) <= MaxFailDirs} }

\* The configurations (ScanConfig): the parameters of _TaskManager.__init__.
CfgAll ==
    [ignore_dirs |-> {}, scan_hidden_dirs |-> TRUE, scan_hidden_files |-> TRUE,
     search_file_names |-> {}, search_file_extensions |-> {}]

CfgNoHidden ==
    [ignore_dirs |-> {dD, Join(ROOT, dB)}, scan_hidden_dirs |-> FALSE,
     scan_hidden_files |-> FALSE,
     search_file_names |-> {}, search_file_extensions |-> {}]

CfgFilter ==
    [ignore_dirs |-> {dC}, scan_hidden_dirs |-> FALSE, scan_hidden_files |-> TRUE,
     search_file_names |-> {<<"r">>, <<"x", "*">>},
     search_file_extensions |-> {<<"p", "d", "f">>}]

Configs == {CfgAll, CfgNoHidden, CfgFilter}

(***************************************************************************)
(* The body of "with os.scandir(path) as it: for entry in it: ..." shared  *)
(* by skim_dir and _crawl_dir.  The accumulator holds the bucket, the      *)
(* paths of the child dicts created, in order, and whether the loop raised *)
(* AttributeError (bucket["__files__"] is a dict, which has no append).    *)
(***************************************************************************)
entry_step(acc, path, e, c) ==
    IF acc.fault THEN acc
    ELSE IF /\ e.kind = "file"
            /\ _should_consider_file(e.name, c.scan_hidden_files,
                                    c.search_file_names, c.search_file_extensions)
         THEN IF Get(acc.b, K_FILES).t = "list"
              THEN [acc EXCEPT !.b = Put(@, K_FILES,
                                         VList(Append(Get(@, K_FILES).x, e.name)))]
              ELSE [acc EXCEPT !.fault = TRUE]
    ELSE IF /\ e.kind = "dir"
            /\ ~_ignore_dir(Join(path, e.name), e.name, c.ignore_dirs, c.scan_hidden_dirs)
         THEN [acc EXCEPT !.b = Put(@, e.name, VDict(Join(path, e.name))),
                          !.stubs = Append(@, Join(path, e.name))]
    ELSE acc

RECURSIVE entry_loop(_, _, _, _)
entry_loop(acc, path, es, c) ==
    IF es = <<>> THEN acc
    ELSE entry_loop(entry_step(acc, path, Head(es), c), path, Tail(es), c)

\* The entries os.scandir delivers before it raises, if it raises.
Delivered(d) == IF d.failAt < 0 THEN d.entries ELSE SubSeq(d.entries, 1, d.failAt)

\* "except OSError as e: bucket["__error__"] = str(e)"
on_oserror(b) == Put(b, K_ERROR, VStr(MSG_OSERROR))

\* Mutant: no except clause, the OSError leaves the loop and its caller.
list_dir_no_except(b, path, d, c) ==
    LET r == entry_loop([b |-> b, stubs |-> <<>>, fault |-> FALSE, oserror |-> FALSE],
                        path, Delivered(d), c)
    IN  IF ~r.fault /\ d.failAt >= 0
        THEN [r EXCEPT !.fault = TRUE, !.oserror = TRUE]
        ELSE r

\* try: scandir loop; except OSError: set __error__.  oserror tells that the
\* listing raised OSError (the loop did not raise something else before).
list_dir(b, path, d, c) ==
    LET r == entry_loop([b |-> b, stubs |-> <<>>, fault |-> FALSE, oserror |-> FALSE],
                        path, Delivered(d), c)
    IN  IF ~r.fault /\ d.failAt >= 0
        THEN [r EXCEPT !.b = on_oserror(@), !.oserror = TRUE]
        ELSE r

(***************************************************************************)
(* State.                                                                  *)
(***************************************************************************)
VARIABLES
    fs,           \* the file system (fixed during a scan)
    rootKind,     \* what the root path is: "dir", "file" or "missing"
    cfg,          \* the configuration
    nodes,        \* the dicts created so far, by the path of their directory
    pc,           \* where the thread calling deep_scan is
    max_workers,  \* _TaskManager._max_workers
    futures,      \* the futures of begin_scan, in submission order
    chk,          \* the index of "for f in futures" after the wait
    pending,      \* the index of the future whose exception is being raised, or 0
    scan_result,  \* Scanner._scan_result
    ret,          \* how _deep_scan_dir ended: "none", "returned", "raised"
    exc,          \* the exception it raised
    rootListed,   \* how often the root directory was listed
    failed,       \* the directories whose listing raised OSError so far
    summary,      \* what _summarize() returned, or NoSummary
    search_result, \* the dict search_scan builds, and whether building it raised
    filename,     \* the file name _should_consider_file is called with
    accepted      \* what that call returned: "none" before it, "yes" or "no"

vars == <<fs, rootKind, cfg, nodes, pc, max_workers, futures, chk, pending,
          scan_result, ret, exc, rootListed, failed, summary, search_result,
          filename, accepted>>

NoBucket == <<>>
NoExc == [type |-> "none", task |-> 0]
NoSummary == <<>>
NoSearch == [m |-> <<>>, fault |-> FALSE, done |-> FALSE]

Init ==
    /\ fs \in UNION {FailingVariants(f) : f \in FileSystems}
    /\ rootKind \in {"dir", "file", "missing"}
    /\ rootKind # "dir" => fs = FsFlat
    /\ cfg \in Configs
    /\ nodes = [p \in DOMAIN fs |-> NoBucket]
    /\ pc = "deep_scan"
    /\ max_workers = 0
    /\ futures = <<>>
    /\ chk = 0
    /\ pending = 0
    /\ scan_result = NoBucket
    /\ ret = "none"
    /\ exc = NoExc
    /\ rootListed = 0
    /\ failed = {}
    /\ summary = NoSummary
    /\ search_result = NoSearch
    /\ filename = <<>>
    /\ accepted = "none"

(***************************************************************************)
(* Scanner._deep_scan_dir and _TaskManager.begin_scan: the calling thread. *)
(***************************************************************************)
\* The dict _deep_scan_dir stores when the root is missing or no directory.
NotExistBucket ==
    <<[k |-> K_PATH, v |-> VStr(ROOT)],
      [k |-> K_FILES, v |-> VList(<<>>)],
      [k |-> K_ERROR, v |-> VStr(MSG_NOTEXIST)]>>

\* nodes after the directory at path was listed into bucket b, creating stubs.
WithListing(ns, path, r) ==
    [q \in DOMAIN ns |->
        IF q = path THEN r.b
        ELSE IF \E i \in 1..Len(r.stubs) : r.stubs[i] = q THEN Stub(q)
        ELSE ns[q]]

\* "root_width += 1" for every value of the root dict that is a dict.
root_width(b) == Len(DictValues(b))

Min(a, b) == IF a <= b THEN a ELSE b

\* self._max_workers = min(root_width, _MAX_WORKERS)
pool_size(width) == Min(width, _MAX_WORKERS)

\* Mutant: every root-level directory is submitted twice.
crawl_roots_twice(b) == DictValues(b) \o DictValues(b)

\* Mutant: one task per pool thread, the directories beyond the cap are dropped.
crawl_roots_capped(b) == SubSeq(DictValues(b), 1, Min(Len(DictValues(b)), _MAX_WORKERS))

\* The buckets begin_scan submits a crawl for, in submission order.
crawl_roots(b) == DictValues(b)

Finished(f) == f.status \in {"done", "raised"}

\* Mutant: the exceptions of the futures are never looked at.
future_exception_ignored(f) == FALSE

\* "if exc := f.exception()" of a finished future.
future_exception(f) == f.status = "raised"

\* _futures.wait(futures, return_when=FIRST_EXCEPTION) returns.
wait_returns(fut) ==
    \/ \E i \in 1..Len(fut) : fut[i].status = "raised"
    \/ \A i \in 1..Len(fut) : Finished(fut[i])

\* Mutant: the join of the pool ends only when every task ended without an
\* exception.
shutdown_returns_on_success(fut) == \A i \in 1..Len(fut) : fut[i].status = "done"

\* ThreadPoolExecutor.__exit__: shutdown(wait=True) joins the pool threads,
\* which first run every work item still in the queue.
shutdown_returns(fut) == \A i \in 1..Len(fut) : Finished(fut[i])

\* Mutant: begin_scan without the early return.
root_has_error_ignored(b) == FALSE

\* if "__error__" in result_bucket: return result_bucket
root_has_error(b) == HasKey(b, K_ERROR)

\* _deep_scan_dir, up to the call of begin_scan.
DeepScanDir ==
    /\ pc = "deep_scan"
    /\ IF rootKind # "dir"
       THEN /\ scan_result' = NotExistBucket
            /\ ret' = "returned"
            /\ pc' = "done"
       ELSE /\ pc' = "begin_scan"
            /\ UNCHANGED <<scan_result, ret>>
    /\ UNCHANGED <<fs, rootKind, cfg, summary, search_result, filename, accepted,
                   nodes, max_workers, futures, chk, pending,
                   exc, rootListed, failed>>

\* begin_scan: skim_dir of the root, the early return, the fan-out.
BeginScan ==
    /\ pc = "begin_scan"
    /\ rootListed' = rootListed + 1
    /\ \E r \in {list_dir(Stub(ROOT), ROOT, fs[ROOT], cfg)} :
           /\ failed' = IF r.oserror THEN failed \cup {ROOT} ELSE failed
           /\ IF r.fault
              THEN \* AttributeError leaves skim_dir, begin_scan and _deep_scan_dir
                   /\ ret' = "raised"
                   /\ exc' = [type |-> "AttributeError", task |-> 0]
                   /\ pc' = "done"
                   /\ UNCHANGED <<nodes, max_workers, scan_result>>
              ELSE /\ nodes' = WithListing(nodes, ROOT, r)
                   /\ IF root_has_error(r.b)
                      THEN /\ scan_result' = r.b
                           /\ ret' = "returned"
                           /\ pc' = "done"
                           /\ UNCHANGED <<max_workers, exc>>
                      ELSE /\ max_workers' = pool_size(root_width(r.b))
                           /\ pc' = "executor"
                           /\ UNCHANGED <<scan_result, ret, exc>>
    /\ UNCHANGED <<fs, rootKind, cfg, summary, search_result, filename, accepted,
                   futures, chk, pending>>

\* ThreadPoolExecutor(max_workers=n) raises ValueError when n <= 0.
ExecutorCreate ==
    /\ pc = "executor"
    /\ IF max_workers <= 0
       THEN /\ ret' = "raised"
            /\ exc' = [type |-> "ValueError", task |-> 0]
            /\ pc' = "done"
       ELSE /\ pc' = "submit"
            /\ UNCHANGED <<ret, exc>>
    /\ UNCHANGED <<fs, rootKind, cfg, summary, search_result, filename, accepted,
                   nodes, max_workers, futures, chk, pending,
                   scan_result, rootListed, failed>>

NewFuture(bucket) ==
    [bucket |-> bucket, status |-> "queued", queue |-> <<>>, listed |-> <<>>]

\* One executor.submit of the list comprehension.
Submit ==
    /\ pc = "submit"
    /\ LET todo == crawl_roots(nodes[ROOT])
           i    == Len(futures) + 1
       IN  /\ futures' = Append(futures, NewFuture(todo[i]))
           /\ pc' = IF i = Len(todo) THEN "wait" ELSE "submit"
    /\ UNCHANGED <<fs, rootKind, cfg, summary, search_result, filename, accepted,
                   nodes, max_workers, chk, pending,
                   scan_result, ret, exc, rootListed, failed>>

Wait ==
    /\ pc = "wait"
    /\ wait_returns(futures)
    /\ pc' = "check"
    /\ chk' = 1
    /\ UNCHANGED <<fs, rootKind, cfg, summary, search_result, filename, accepted,
                   nodes, max_workers, futures, pending,
                   scan_result, ret, exc, rootListed, failed>>

\* Mutant: the exception raised is that of any task that has raised so far,
\* as with as_completed.
CheckFutureAsCompleted ==
    /\ pc = "check"
    /\ IF \E i \in 1..Len(futures) : futures[i].status = "raised"
       THEN /\ \E i \in 1..Len(futures) :
                  futures[i].status = "raised" /\ pending' = i
            /\ pc' = "shutdown"
            /\ UNCHANGED chk
       ELSE /\ \A i \in 1..Len(futures) : Finished(futures[i])
            /\ pc' = "shutdown"
            /\ UNCHANGED <<chk, pending>>
    /\ UNCHANGED <<fs, rootKind, cfg, summary, search_result, filename, accepted,
                   nodes, max_workers, futures,
                   scan_result, ret, exc, rootListed, failed>>

\* "for f in futures: if exc := f.exception(): raise exc"; f.exception()
\* blocks until f is finished.
CheckFuture ==
    /\ pc = "check"
    /\ Finished(futures[chk])
    /\ IF future_exception(futures[chk])
       THEN /\ pending' = chk
            /\ pc' = "shutdown"
            /\ UNCHANGED chk
       ELSE /\ chk' = chk + 1
            /\ pc' = IF chk = Len(futures) THEN "shutdown" ELSE "check"
            /\ UNCHANGED pending
    /\ UNCHANGED <<fs, rootKind, cfg, summary, search_result, filename, accepted,
                   nodes, max_workers, futures,
                   scan_result, ret, exc, rootListed, failed>>

\* Leaving the with block, then "return result_bucket" and the assignment
\* of _deep_scan_dir, or the exception leaving both.
Shutdown ==
    /\ pc = "shutdown"
    /\ shutdown_returns(futures)
    /\ IF pending # 0
       THEN /\ ret' = "raised"
            /\ exc' = [type |-> "AttributeError", task |-> pending]
            /\ UNCHANGED scan_result
       ELSE /\ ret' = "returned"
            /\ scan_result' = nodes[ROOT]
            /\ UNCHANGED exc
    /\ pc' = "done"
    /\ UNCHANGED <<fs, rootKind, cfg, summary, search_result, filename, accepted,
                   nodes, max_workers, futures, chk, pending,
                   rootListed, failed>>

(***************************************************************************)
(* The pool threads.                                                       *)
(***************************************************************************)
Running(fut) == {i \in 1..Len(fut) : fut[i].status = "running"}

\* Mutant: every crawl starts from the scan's root path, not from its bucket.
initial_targets_root(f) == <<ROOT>>

\* crawl_targets = [(out_bucket["__path__"], out_bucket)]
initial_targets(f) == <<f.bucket>>

\* A pool thread takes the oldest work item of the queue; the pool has at
\* most max_workers threads.
StartCrawl(i) ==
    /\ futures[i].status = "queued"
    /\ \A j \in 1..(i - 1) : futures[j].status # "queued"
    /\ Cardinality(Running(futures)) < max_workers
    /\ futures' = [futures EXCEPT ![i].status = "running",
                                  ![i].queue = initial_targets(futures[i])]
    /\ UNCHANGED <<fs, rootKind, cfg, summary, search_result, filename, accepted,
                   nodes, pc, max_workers, chk, pending,
                   scan_result, ret, exc, rootListed, failed>>

\* Mutant: the child directories found are not queued.
crawl_targets_after_no_append(queue, stubs) == Tail(queue)

\* Mutant: the directories found are put in front of the queue.
crawl_targets_after_in_front(queue, stubs) == stubs \o Tail(queue)

\* crawl_targets after pop(0) and the appends of one iteration.
crawl_targets_after(queue, stubs) == Tail(queue) \o stubs

\* One iteration of "while crawl_targets"; the task ends when the queue is
\* empty, or with the AttributeError of the loop.
CrawlStep(i) ==
    /\ futures[i].status = "running"
    /\ \E target \in {Head(futures[i].queue)} :
       \E r \in {list_dir(nodes[target], target, fs[target], cfg)} :
       \E q \in {crawl_targets_after(futures[i].queue, r.stubs)} :
           /\ nodes' = WithListing(nodes, target, r)
           /\ failed' = IF r.oserror
                        THEN failed \cup {target} ELSE failed
           /\ futures' = [futures EXCEPT
                 ![i].listed = Append(@, target),
                 ![i].queue  = q,
                 ![i].status = IF r.fault THEN "raised"
                               ELSE IF q = <<>> THEN "done" ELSE "running"]
    /\ UNCHANGED <<fs, rootKind, cfg, summary, search_result, filename, accepted,
                   pc, max_workers, chk, pending,
                   scan_result, ret, exc, rootListed>>

(***************************************************************************)
(* Scanner._summarize.                                                     *)
(***************************************************************************)
RECURSIVE SumTriples(_)
SumTriples(ts) ==
    IF ts = <<>> THEN <<0, 0, 0>>
    ELSE LET h == Head(ts)
             r == SumTriples(Tail(ts))
         IN  <<h[1] + r[1], h[2] + r[2], h[3] + r[3]>>

\* len(bucket["__files__"]): of the list, or of the dict that replaced it.
files_len(ns, b) ==
    LET v == Get(b, K_FILES)
    IN  IF v.t = "dict" THEN Len(ns[v.x]) ELSE Len(v.x)

\* (error_count, dir_count, file_count) of the bucket b in the arena ns.
RECURSIVE _summarize(_, _)
_summarize(ns, b) ==
    IF HasKey(b, K_ERROR) THEN <<1, 0, 0>>
    ELSE LET kids == DictValues(b)
             sub  == SumTriples([i \in 1..Len(kids) |-> _summarize(ns, ns[kids[i]])])
         IN  <<sub[1], (Len(b) - 2) + sub[2], files_len(ns, b) + sub[3]>>

(***************************************************************************)
(* Scanner.search_scan: _compile_result, and the rest of deep_scan.        *)
(***************************************************************************)
\* "if bucket['__files__']": a list is true when it is not empty, a dict
\* when it has a key.
truthy(ns, v) == IF v.t = "dict" THEN ns[v.x] # <<>> ELSE v.x # <<>>

\* "search_result[bucket['__path__']] = bucket['__files__']": a key that is
\* a dict is unhashable and raises TypeError.
set_search_result(acc, b) ==
    LET key == Get(b, K_PATH)
    IN  IF key.t = "dict" THEN [acc EXCEPT !.fault = TRUE]
        ELSE [acc EXCEPT !.m = Put(@, key.x, Get(b, K_FILES))]

\* _compile_result(bucket) on the search_result acc; compile_values is
\* its loop over the values of the bucket that are dicts.
RECURSIVE _compile_result(_, _, _)
RECURSIVE compile_values(_, _, _)
_compile_result(acc, ns, b) ==
    IF acc.fault \/ HasKey(b, K_ERROR) THEN acc
    ELSE LET a1 == IF truthy(ns, Get(b, K_FILES))
                   THEN set_search_result(acc, b) ELSE acc
         IN  compile_values(a1, ns, DictValues(b))

compile_values(acc, ns, kids) ==
    IF kids = <<>> \/ acc.fault THEN acc
    ELSE compile_values(_compile_result(acc, ns, ns[Head(kids)]), ns, Tail(kids))

\* After _deep_scan_dir has returned: the summary of deep_scan and the
\* flattening of search_scan, both of Scanner._scan_result.
SearchScan ==
    /\ pc = "done"
    /\ ret = "returned"
    /\ ~search_result.done
    /\ summary' = _summarize(nodes, scan_result)
    /\ search_result' = [_compile_result(NoSearch, nodes, scan_result)
                            EXCEPT !.done = TRUE]
    /\ UNCHANGED <<fs, rootKind, cfg, filename, accepted, nodes, pc, max_workers,
                   futures, chk, pending, scan_result, ret, exc, rootListed, failed>>

Next ==
    \/ DeepScanDir
    \/ BeginScan
    \/ ExecutorCreate
    \/ Submit
    \/ Wait
    \/ CheckFuture
    \/ Shutdown
    \/ SearchScan
    \/ \E i \in 1..Len(futures) : StartCrawl(i)
    \/ \E i \in 1..Len(futures) : CrawlStep(i)

Spec == Init /\ [][Next]_vars

(***************************************************************************)
(* _should_consider_file on its own: a file name and a configuration drawn *)
(* from bounded sets, and the one call of the function.                    *)
(***************************************************************************)
MaxNameLen == 4
MaxExtLen == 4
MaxPatLen == 2

Alphabet == {"a", "A", "."}
Strings(n) == UNION {[1..k -> Alphabet] : k \in 1..n}

\* File names, extensions and a configuration as a user would write them.
SampleNames ==
    {<<"R", "e", "p", "o", "r", "t", ".", "P", "D", "F">>,
     <<"R", "e", "p", "o", "r", "t", ".", "p", "d", "f", ".", "t", "x", "t">>,
     <<"a", ".", "t", "a", "r", ".", "g", "z">>,
     <<"a", ".", "t", "a", "r">>,
     <<".", "p", "d", "f">>}

SampleExts ==
    {<<"p", "d", "f">>, <<".", "p", "d", "f">>, <<"P", "D", "F">>,
     <<".", "t", "a", "r", ".", "g", "z">>, <<"t", "a", "r", ".", "g", "z">>}

SamplePatterns == {<<"p", "o", "r">>, <<"R", "E">>, <<"t", "a", "r", "*">>, <<"?", ".", "*">>}

FilterCfg(hidden, names, exts) ==
    [ignore_dirs |-> {}, scan_hidden_dirs |-> TRUE, scan_hidden_files |-> hidden,
     search_file_names |-> names, search_file_extensions |-> exts]

\* One extension and no pattern; one pattern, with and without an extension;
\* and the samples, with up to two extensions and up to one pattern.
FilterInputs ==
    \/ /\ filename \in Strings(MaxNameLen)
       /\ \E e \in Strings(MaxExtLen) : cfg = FilterCfg(TRUE, {}, {e})
    \/ /\ filename \in Strings(MaxNameLen)
       /\ \E h \in BOOLEAN, p \in Strings(MaxPatLen),
             x \in {{}, {<<"a">>}, {<<".", "A">>}} : cfg = FilterCfg(h, {p}, x)
    \/ /\ filename \in SampleNames
       /\ \E h \in BOOLEAN, ps \in {{}} \cup {{p} : p \in SamplePatterns},
             e1 \in SampleExts, e2 \in SampleExts : cfg = FilterCfg(h, ps, {e1, e2})

FilterInit ==
    /\ FilterInputs
    /\ accepted = "none"
    /\ pc = "filter"
    /\ fs = FsFlat
    /\ rootKind = "dir"
    /\ nodes = [p \in DOMAIN fs |-> NoBucket]
    /\ max_workers = 0
    /\ futures = <<>>
    /\ chk = 0
    /\ pending = 0
    /\ scan_result = NoBucket
    /\ ret = "none"
    /\ exc = NoExc
    /\ rootListed = 0
    /\ failed = {}
    /\ summary = NoSummary
    /\ search_result = NoSearch

\* The call "_should_consider_file(filename=..., scan_hidden=...,
\* search_file_names=..., search_file_extensions=...)".
ConsiderFile ==
    /\ pc = "filter"
    /\ accepted' = IF _should_consider_file(filename, cfg.scan_hidden_files,
                         cfg.search_file_names, cfg.search_file_extensions)
                   THEN "yes" ELSE "no"
    /\ pc' = "filtered"
    /\ UNCHANGED <<fs, rootKind, cfg, summary, search_result, filename, nodes,
                   max_workers, futures, chk, pending, scan_result, ret, exc,
                   rootListed, failed>>

FilterNext == ConsiderFile

FilterSpec == FilterInit /\ [][FilterNext]_vars

(***************************************************************************)
(* Properties.                                                             *)
(***************************************************************************)
\* The directories listed by the pool threads so far.
Listed(i) == {futures[i].listed[k] : k \in 1..Len(futures[i].listed)}
ListedByWorkers == UNION {Listed(i) : i \in 1..Len(futures)}

\* The root was listed without OSError and without any other exception.
RootListedOk == nodes[ROOT] # NoBucket /\ ROOT \notin failed

\* C1: when the root lists successfully and has no accepted subdirectory,
\* the scan starts no worker and returns the root node as the complete tree:
\* path set, files the accepted files of the root, no error field.
C1_FanoutZeroReturnsRoot ==
    (pc = "done" /\ RootListedOk /\ ~HasKey(nodes[ROOT], K_ERROR)
        /\ root_width(nodes[ROOT]) = 0)
    => /\ ret = "returned"
       /\ futures = <<>>
       /\ scan_result = nodes[ROOT]
       /\ Get(scan_result, K_PATH) = VStr(ROOT)

\* C2: a root that does not exist, is no directory or cannot be listed still
\* gives a root node with the error set; no crawl task is ever submitted, no
\* directory other than the root is ever listed, and the summary of the tree
\* is (1, 0, 0).
RootUnlistable == rootKind # "dir" \/ ROOT \in failed

C2_RootErrorSingleNode ==
    RootUnlistable
    => /\ futures = <<>>
       /\ ListedByWorkers = {}
       /\ rootListed <= 1
       /\ (pc = "done"
            => /\ ret = "returned"
               /\ HasKey(scan_result, K_ERROR)
               /\ Get(scan_result, K_PATH) = VStr(ROOT)
               /\ _summarize(nodes, scan_result) = <<1, 0, 0>>)

\* A root whose listing failed after a subdirectory was already collected.
C2_Witness ==
    /\ pc = "done"
    /\ ROOT \in failed
    /\ DictValues(scan_result) # <<>>

\* The directories the step lists: the new entries of the workers' logs.
NewlyListed ==
    UNION { {futures'[i].listed[k] :
                k \in ((IF i <= Len(futures) THEN Len(futures[i].listed) ELSE 0) + 1)
                      ..Len(futures'[i].listed)} :
            i \in 1..Len(futures') }

\* C3: a node with the error set is terminal: once the listing of a directory
\* has failed, no directory below it is listed afterwards and its own node
\* does not change.
C3_ErrorTerminal ==
    [][\A d \in failed :
          /\ nodes'[d] = nodes[d]
          /\ \A q \in NewlyListed : ~Below(d, q)]_vars

\* C4: an OSError of a listing inside a worker is local: the step that meets
\* it sets the error on that node and on no other, does not end the task with
\* an exception, keeps the rest of the worker's queue, leaves the other tasks
\* and the calling thread alone; and a scan in which no task raised returns.
C4_Step ==
    \A d \in failed' \ failed :
        d # ROOT =>
        \E i \in 1..Len(futures) :
            /\ futures'[i].listed = Append(futures[i].listed, d)
            /\ futures'[i].status # "raised"
            /\ Len(futures'[i].queue) >= Len(futures[i].queue) - 1
            /\ SubSeq(futures'[i].queue, 1, Len(futures[i].queue) - 1)
                   = Tail(futures[i].queue)
            /\ \A j \in 1..Len(futures) : j # i => futures'[j] = futures[j]
            /\ HasKey(nodes'[d], K_ERROR)
            /\ \A q \in DOMAIN nodes :
                  q # d => (HasKey(nodes'[q], K_ERROR) <=> HasKey(nodes[q], K_ERROR))
            /\ UNCHANGED <<pc, ret, exc, scan_result>>

AllCrawlsDone ==
    \A i \in 1..Len(futures) : futures[i].status = "done" /\ futures[i].queue = <<>>

C4_OSErrorLocal ==
    /\ [][C4_Step]_vars
    /\ []((pc = "done" /\ futures # <<>>
             /\ \A i \in 1..Len(futures) : futures[i].status # "raised")
          => (ret = "returned" /\ AllCrawlsDone))

\* A scan that returned although a worker met a failing listing and went on
\* to list another directory after it.
C4_Witness ==
    /\ ret = "returned"
    /\ \E i \in 1..Len(futures) : \E k \in 1..Len(futures[i].listed) :
          /\ futures[i].listed[k] \in failed
          /\ k < Len(futures[i].listed)
    /\ \E i \in 1..Len(futures) : Listed(i) \cap failed = {} /\ futures[i].status = "done"

\* C5: when a crawl raised, the scan raises that exception, returns no tree,
\* and leaves Scanner._scan_result as it was before the scan.
SomeCrawlRaised == \E i \in 1..Len(futures) : futures[i].status = "raised"

C5_FaultAborts ==
    SomeCrawlRaised
    => /\ scan_result = NoBucket
       /\ ret # "returned"
       /\ (pc = "done"
            => /\ ret = "raised"
               /\ exc.type = "AttributeError"
               /\ exc.task \in 1..Len(futures)
               /\ futures[exc.task].status = "raised")

\* A scan that raised while another task had completed its subtree.
C5_Witness ==
    /\ pc = "done"
    /\ SomeCrawlRaised
    /\ \E i \in 1..Len(futures) :
          futures[i].status = "done" /\ Len(futures[i].listed) >= 2

\* C6: fail-fast: once a crawl has raised, the calling thread is not held up
\* by the tasks that are still running or queued.
C6_FailFast ==
    (SomeCrawlRaised /\ pc \in {"wait", "check", "shutdown"})
    => ENABLED (Wait \/ CheckFuture \/ Shutdown)

\* The directory q is in the subtree handed to the i-th task.
Owns(i, q) == q = futures[i].bucket \/ Below(futures[i].bucket, q)

\* C7: exclusive ownership: every directory is listed at most once in a scan,
\* a worker lists only directories of the root-level subtree it was handed,
\* no two tasks are handed the same subtree, and a step that changes a node
\* below the root is a step of the one task that owns it.
C7_Inv ==
    /\ rootListed <= 1
    /\ \A i \in 1..Len(futures) :
          /\ Below(ROOT, futures[i].bucket)
          /\ \A q \in Listed(i) : Owns(i, q)
          /\ \A k, l \in 1..Len(futures[i].listed) :
                k # l => futures[i].listed[k] # futures[i].listed[l]
    /\ \A i, j \in 1..Len(futures) :
          i # j => /\ futures[i].bucket # futures[j].bucket
                   /\ Listed(i) \cap Listed(j) = {}

C7_Step ==
    \A q \in DOMAIN nodes :
        nodes'[q] # nodes[q]
        => \/ pc = "begin_scan" /\ futures = <<>>
           \/ \E i \in 1..Len(futures) :
                 /\ futures'[i].listed # futures[i].listed
                 /\ Owns(i, q)
                 /\ \A j \in 1..Len(futures) : j # i => futures'[j] = futures[j]

C7_ExclusiveOwnership == []C7_Inv /\ [][C7_Step]_vars

\* Two tasks that have each listed several directories of their subtrees.
C7_Witness ==
    /\ pc = "done"
    /\ \E i, j \in 1..Len(futures) :
          i # j /\ Len(futures[i].listed) >= 2 /\ Len(futures[j].listed) >= 2

\* The root-level directories the configuration accepts, from the file system.
AcceptedRootDirs ==
    {Join(ROOT, fs[ROOT].entries[k].name) : k \in
        {n \in 1..Len(fs[ROOT].entries) :
            /\ fs[ROOT].entries[n].kind = "dir"
            /\ ~_ignore_dir(Join(ROOT, fs[ROOT].entries[n].name), fs[ROOT].entries[n].name,
                           cfg.ignore_dirs, cfg.scan_hidden_dirs)}}

\* Every dict created at or below c has been listed by the i-th task.
SubtreeCrawled(i, c) ==
    \A q \in DOMAIN nodes :
        ((q = c \/ Below(c, q)) /\ nodes[q] # NoBucket) => q \in Listed(i)

\* Where begin_scan reaches the pool: one crawl task per accepted root-level
\* directory, however many there are compared to _MAX_WORKERS; every one of
\* these subtrees is in the tree the scan returns, crawled to completion.
C8_OneTaskPerRootDir ==
    /\ (pc \in {"wait", "check", "shutdown"} \/ (pc = "done" /\ futures # <<>>))
       => /\ Len(futures) = Cardinality(AcceptedRootDirs)
          /\ {futures[i].bucket : i \in 1..Len(futures)} = AcceptedRootDirs
    /\ (ret = "returned" /\ futures # <<>>)
       => \A c \in AcceptedRootDirs :
             /\ \E k \in 1..Len(scan_result) : scan_result[k].v = VDict(c)
             /\ \E i \in 1..Len(futures) :
                   /\ futures[i].bucket = c
                   /\ futures[i].status = "done"
                   /\ futures[i].queue = <<>>
                   /\ SubtreeCrawled(i, c)

\* A returned scan of a root with more accepted directories than _MAX_WORKERS.
C8_Witness ==
    /\ ret = "returned"
    /\ Len(futures) > _MAX_WORKERS
    /\ max_workers = _MAX_WORKERS

\* The nodes of the tree below the bucket b, and those of them that are not
\* below a node with the error set.
RECURSIVE TreeNodes(_, _)
TreeNodes(ns, b) ==
    LET kids == DictValues(b)
    IN  {kids[i] : i \in 1..Len(kids)}
        \cup UNION {TreeNodes(ns, ns[kids[i]]) : i \in 1..Len(kids)}

RECURSIVE LiveNodes(_, _)
LiveNodes(ns, b) ==
    IF HasKey(b, K_ERROR) THEN {}
    ELSE LET kids == DictValues(b)
         IN  {kids[i] : i \in 1..Len(kids)}
             \cup UNION {LiveNodes(ns, ns[kids[i]]) : i \in 1..Len(kids)}

\* No directory of the file system is named like a reserved key.
NoReservedNames ==
    \A d \in DOMAIN fs : \A k \in 1..Len(fs[d].entries) :
        fs[d].entries[k].name \notin {K_PATH, K_FILES, K_ERROR}

\* C9 as stated: at the return of the tree no task holds a pending entry and
\* every node of the tree without the error set has had its directory listed
\* (here on the file systems without reserved names, where an error key is
\* always the mark of a failed listing).
C9_AllNodesListedAtReturn ==
    (ret = "returned" /\ NoReservedNames)
    => /\ \A i \in 1..Len(futures) : futures[i].queue = <<>> /\ futures[i].status = "done"
       /\ ~HasKey(scan_result, K_ERROR) => rootListed = 1
       /\ \A q \in TreeNodes(nodes, scan_result) :
             ~HasKey(nodes[q], K_ERROR) => q \in ListedByWorkers

\* C9 amended: at the return of the tree every task has finished with an
\* empty queue, every node of the tree without the error set that is not
\* below a node with the error set has had its directory listed, and no node
\* changes after the return.
C9_Inv ==
    ret = "returned"
    => /\ \A i \in 1..Len(futures) : futures[i].queue = <<>> /\ futures[i].status = "done"
       /\ ~HasKey(scan_result, K_ERROR) => rootListed = 1
       /\ \A q \in LiveNodes(nodes, scan_result) :
             ~HasKey(nodes[q], K_ERROR) => q \in ListedByWorkers

C9_ReturnAfterAllWorkers ==
    []C9_Inv /\ [][ret = "returned" => (nodes' = nodes /\ futures' = futures)]_vars

\* A returned tree with nodes three levels below the root, all listed.
C9_Witness ==
    /\ ret = "returned"
    /\ \E q \in LiveNodes(nodes, scan_result) :
          \E p \in LiveNodes(nodes, scan_result) : Below(p, q) /\ q \in ListedByWorkers
    /\ Len(futures) >= 2

\* One thread doing the whole crawl: the root, then each root-level subtree
\* to completion, in the order of the root dict.
RECURSIVE seq_crawl(_, _)
seq_crawl(ns, queue) ==
    IF queue = <<>> THEN ns
    ELSE LET r == list_dir(ns[Head(queue)], Head(queue), fs[Head(queue)], cfg)
         IN  IF r.fault THEN WithListing(ns, Head(queue), r)
             ELSE seq_crawl(WithListing(ns, Head(queue), r), Tail(queue) \o r.stubs)

RECURSIVE seq_tasks(_, _)
seq_tasks(ns, roots) ==
    IF roots = <<>> THEN ns
    ELSE seq_tasks(seq_crawl(ns, <<Head(roots)>>), Tail(roots))

SequentialScan ==
    LET r0 == list_dir(Stub(ROOT), ROOT, fs[ROOT], cfg)
    IN  seq_tasks(WithListing([p \in DOMAIN fs |-> NoBucket], ROOT, r0), DictValues(r0.b))

\* C10: the tree a scan returns is, in every interleaving of the workers,
\* the tree one sequential crawl of the same file system produces.
C10_InterleavingIndependent ==
    (ret = "returned" /\ futures # <<>>)
    => /\ nodes = SequentialScan
       /\ scan_result = SequentialScan[ROOT]

\* A returned scan in which several tasks each listed several directories.
C10_Witness ==
    /\ ret = "returned"
    /\ Len(futures) >= 2
    /\ \E i \in 1..Len(futures) : Len(futures[i].listed) >= 3
    /\ \E i \in 1..Len(futures) : Len(futures[i].listed) = 2


\* The directory entries the configuration excludes, stated from the
\* configuration: by name, by full path, or hidden while hidden directories
\* are off.
ExcludedEntry(path, name) ==
    \/ name \in cfg.ignore_dirs
    \/ path \in cfg.ignore_dirs
    \/ (~cfg.scan_hidden_dirs /\ name[1] = ".")

ExcludedPaths ==
    {Join(d, fs[d].entries[k].name) : <<d, k>> \in
        {dk \in (DOMAIN fs) \X (1..MaxEntries(fs)) :
            /\ dk[2] <= Len(fs[dk[1]].entries)
            /\ fs[dk[1]].entries[dk[2]].kind = "dir"
            /\ ExcludedEntry(Join(dk[1], fs[dk[1]].entries[dk[2]].name),
                             fs[dk[1]].entries[dk[2]].name)}}

ExcludedOrBelow ==
    {p \in DOMAIN fs : \E q \in ExcludedPaths : p = q \/ Below(q, p)}

\* The keys of the dict search_scan has built.
SearchKeys == {search_result.m[k].k : k \in 1..Len(search_result.m)}

\* C11: an excluded directory (name or full path in the ignore set, or hidden
\* while hidden directories are off) is never a key of a node, neither it nor
\* a directory below it is ever created or listed, none is in the returned
\* tree or among the keys of the flattened result, and the directory count of
\* the summary stays within the directories that are not excluded.
C11_ExcludedNeverScanned ==
    /\ \A p \in ExcludedOrBelow : nodes[p] = NoBucket /\ p \notin ListedByWorkers
    /\ \A d \in DOMAIN fs : \A k \in 1..Len(fs[d].entries) :
          (/\ fs[d].entries[k].kind = "dir"
           /\ ExcludedEntry(Join(d, fs[d].entries[k].name), fs[d].entries[k].name)
           /\ nodes[d] # NoBucket)
          => ~HasKey(nodes[d], fs[d].entries[k].name)
    /\ (pc = "done" /\ ret = "returned" /\ rootKind = "dir")
          => TreeNodes(nodes, scan_result) \cap ExcludedOrBelow = {}
    /\ search_result.done
          => /\ SearchKeys \cap ExcludedOrBelow = {}
             /\ summary[2] <= Cardinality(DOMAIN fs \ ExcludedOrBelow) - 1

\* A scan was reduced whose tree holds a listed directory with an excluded
\* subdirectory that has a file of its own.
C11_Witness ==
    /\ search_result.done
    /\ summary[2] > 0
    /\ \E p \in ExcludedPaths : \E d \in DOMAIN fs \ {ROOT} :
          /\ Below(d, p)
          /\ d \in ListedByWorkers /\ d \notin failed
          /\ \E k \in 1..Len(fs[p].entries) : fs[p].entries[k].kind = "file"

\* C12: a node carries the error field exactly when the listing of its
\* directory failed; a node whose directory listed successfully never
\* carries it, whatever the names of its files and subdirectories.
C12_ErrorIffListingFailed ==
    rootKind = "dir"
    => \A p \in DOMAIN nodes :
          nodes[p] # NoBucket => (HasKey(nodes[p], K_ERROR) <=> p \in failed)

\* The counts as C13 states them: the child directories of a node are its
\* values that are nodes, its files the elements of its file list (a
\* "__files__" key that holds a child directory holds no file).
RECURSIVE StatedSummary(_, _)
StatedSummary(ns, b) ==
    IF HasKey(b, K_ERROR) THEN <<1, 0, 0>>
    ELSE LET kids  == DictValues(b)
             files == Get(b, K_FILES)
             sub   == SumTriples([i \in 1..Len(kids) |-> StatedSummary(ns, ns[kids[i]])])
         IN  <<sub[1],
               Len(kids) + sub[2],
               (IF files.t = "list" THEN Len(files.x) ELSE 0) + sub[3]>>

\* C13: the summary is (errors, directories, files): a node with the error
\* set counts (1, 0, 0) and is not descended into; every other node adds the
\* number of its child directories and the number of its files to the sums of
\* its children.
C13_SummarizeCounts ==
    summary # NoSummary => summary = StatedSummary(nodes, scan_result)

\* The files of directory p the configuration accepts when no name and no
\* extension filter is set, in listing order.
RECURSIVE FileNames(_)
FileNames(es) ==
    IF es = <<>> THEN <<>>
    ELSE (IF Head(es).kind = "file"
              /\ (cfg.scan_hidden_files \/ Head(es).name[1] # ".")
          THEN <<Head(es).name>> ELSE <<>>) \o FileNames(Tail(es))

NoFilters == cfg.search_file_names = {} /\ cfg.search_file_extensions = {}
NoListingFails == \A d \in DOMAIN fs : fs[d].failAt = -1

\* C14: without filters and without listing failures the keys of the
\* flattened result are exactly the paths of the directories that are not
\* excluded nor below an excluded one and hold an accepted file, and each key
\* maps to the accepted files of its directory.
C14_FlattenKeys ==
    (search_result.done /\ rootKind = "dir" /\ NoFilters /\ NoListingFails)
    => /\ ~search_result.fault
       /\ SearchKeys = {p \in DOMAIN fs \ ExcludedOrBelow :
                            FileNames(fs[p].entries) # <<>>}
       /\ \A k \in 1..Len(search_result.m) :
             search_result.m[k].v = VList(FileNames(fs[search_result.m[k].k].entries))

\* The configured extension as C15 compares it: lower case, with a leading
\* dot removed and nothing else.
StatedExt(ext) == StrLower(IF ext[1] = "." THEN Tail(ext) ELSE ext)

\* The file name passes the hidden-file check and the name patterns.
PassesNameChecks ==
    _should_consider_file(filename, cfg.scan_hidden_files, cfg.search_file_names, {})

\* C15: with extensions configured, a file name that passed the hidden-file
\* and name-pattern checks is accepted exactly when it ends, ignoring case,
\* with "." followed by one of the extensions, an extension with a leading dot
\* being compared with only that dot removed.
C15_ExtensionSuffix ==
    (accepted # "none" /\ cfg.search_file_extensions # {} /\ PassesNameChecks)
    => (accepted = "yes"
          <=> \E e \in cfg.search_file_extensions :
                 EndsWith(StrLower(filename), <<".">> \o StatedExt(e)))

\* s occurs in t as a contiguous run of characters.
Substring(s, t) ==
    \E i \in 0..(Len(t) - Len(s)) : SubSeq(t, i + 1, i + Len(s)) = s

BarePatterns ==
    \A p \in cfg.search_file_names : \A k \in 1..Len(p) : p[k] \notin {"*", "?", "["}

NotHiddenOut == cfg.scan_hidden_files \/ filename[1] # "."

\* C16: a pattern without "*", "?" and "[" accepts a file name exactly when
\* it occurs in the name ignoring case; a file name that matches none of the
\* configured patterns is excluded whatever the extension filter says.
C16_BarePatternIsSubstring ==
    (accepted # "none" /\ cfg.search_file_names # {} /\ BarePatterns /\ NotHiddenOut)
    => LET hit == \E p \in cfg.search_file_names :
                     Substring(StrLower(p), StrLower(filename))
       IN  /\ cfg.search_file_extensions = {} => (accepted = "yes" <=> hit)
           /\ ~hit => accepted = "no"

\* Accepted by a pattern that occurs inside the name in another case; and
\* the sets are large enough to hold a name rejected although its extension
\* is configured.
C16_Witness ==
    /\ accepted = "yes"
    /\ cfg.search_file_extensions = {}
    /\ \E p \in cfg.search_file_names :
          /\ BarePatterns
          /\ Len(p) < Len(filename)
          /\ ~Substring(p, filename)
          /\ Substring(StrLower(p), StrLower(filename))

\* C17: once begin_scan has sized the pool for a root that listed
\* successfully, the worker count is min(fan-out, _MAX_WORKERS), at most that
\* many crawl tasks run at the same time, and workers_deployed (the value of
\* max_workers) reports that number after the scan.
C17_WorkerCount ==
    (rootKind = "dir" /\ RootListedOk /\ pc \notin {"deep_scan", "begin_scan"})
    => LET n == Min(Cardinality(AcceptedRootDirs), _MAX_WORKERS)
       IN  /\ max_workers = n
           /\ Cardinality(Running(futures)) <= n

\* The steps of a scan: those of the thread that calls begin_scan and those
\* of the pool threads.
ScanStep ==
    \/ DeepScanDir \/ BeginScan \/ ExecutorCreate \/ Submit \/ Wait
    \/ CheckFuture \/ Shutdown
    \/ \E i \in 1..Len(futures) : StartCrawl(i)
    \/ \E i \in 1..Len(futures) : CrawlStep(i)

\* The threads of the process are scheduled fairly: while a step of the scan
\* stays possible, one is eventually taken.
FairSpec == Spec /\ WF_vars(ScanStep)

Depth(p) == Cardinality({k \in 1..Len(p) : p[k] = "/"})

\* C19: the queue of a task is first-in first-out: the task lists the
\* directories of its subtree in non-decreasing depth, so every directory of
\* one depth before any of the next, what still waits in the queue is no
\* shallower than what was listed, and a directory is listed only after its
\* parent.
C19_BreadthFirstPerTask ==
    \A i \in 1..Len(futures) :
        LET l == futures[i].listed
            q == futures[i].queue
        IN  /\ \A k \in 1..Len(l) : \A m \in (k + 1)..Len(l) : Depth(l[k]) <= Depth(l[m])
            /\ \A k \in 1..Len(q) : \A m \in (k + 1)..Len(q) : Depth(q[k]) <= Depth(q[m])
            /\ futures[i].status = "running"
                  => \A k \in 1..Len(l) : \A m \in 1..Len(q) : Depth(l[k]) <= Depth(q[m])
            /\ \A m \in 1..Len(l) :
                  \/ m = 1 /\ l[m] = futures[i].bucket
                  \/ \E k \in 1..(m - 1) :
                        Below(l[k], l[m]) /\ Depth(l[m]) = Depth(l[k]) + 1

\* A task that listed two directories of one depth and then one below the
\* first of them.
C19_Witness ==
    \E i \in 1..Len(futures) :
        LET l == futures[i].listed
        IN  \E k \in 2..(Len(l) - 2) :
               /\ Depth(l[k]) = Depth(l[k + 1])
               /\ Depth(l[k + 2]) > Depth(l[k])
               /\ Below(l[k], l[k + 2])

\* The tasks that ended with an exception.
Raised == {i \in 1..Len(futures) : futures[i].status = "raised"}

\* C20: when tasks raised, begin_scan raises exactly one exception, that of
\* the raised task submitted first, whichever task raised or finished first.
C20_EarliestSubmittedFault ==
    /\ (pc = "done" /\ Raised # {})
          => /\ ret = "raised"
             /\ exc.task \in Raised
             /\ \A j \in Raised : exc.task <= j
    /\ (pc = "shutdown" /\ pending # 0)
          => /\ pending \in Raised
             /\ \A j \in 1..(pending - 1) : futures[j].status = "done"

\* Two tasks raised, and the exception that left begin_scan is the first's.
C20_Witness ==
    /\ pc = "done"
    /\ ret = "raised"
    /\ Cardinality(Raised) >= 2
    /\ \E j \in Raised : exc.task < j

\* C8: whenever the root listed successfully, one crawl task is submitted
\* per accepted root-level directory, however many there are compared to
\* _MAX_WORKERS, and every one of these subtrees is in the tree the scan
\* returns, crawled to completion.
C8_TaskPerAcceptedRootDir ==
    (rootKind = "dir" /\ RootListedOk)
    => /\ pc \in {"wait", "check", "shutdown", "done"}
          => /\ Len(futures) = Cardinality(AcceptedRootDirs)
             /\ {futures[i].bucket : i \in 1..Len(futures)} = AcceptedRootDirs
       /\ ret = "returned"
          => \A c \in AcceptedRootDirs :
                /\ \E k \in 1..Len(scan_result) : scan_result[k].v = VDict(c)
                /\ \E i \in 1..Len(futures) :
                      /\ futures[i].bucket = c
                      /\ futures[i].status = "done"
                      /\ futures[i].queue = <<>>
                      /\ SubtreeCrawled(i, c)
=============================================================================
